---- MODULE Spec2Model ----
(***************************************************************************)
(* Model of lottery_simulation.py: the weighted draw without replacement   *)
(* (run_single_lottery), the trial loop that folds every draw into the     *)
(* per-ticket-count statistics (run_simulation), and the percentage rows   *)
(* of print_results.                                                       *)
(*                                                                         *)
(* An Entrant object is identified by its index in the entrants list, so   *)
(* `remaining` and `drawn` hold indexes (object references) while names    *)
(* and tickets are read through `entrants`.  random.choices is a           *)
(* nondeterministic pick among the remaining entrants of positive weight.  *)
(***************************************************************************)
EXTENDS Integers, Sequences, FiniteSets, TLC

\* ---- bounds of the model ------------------------------------------------
MaxPool == 3
MaxTickets == 2
MaxIterations == 2
MaxSpots == 2

NameOf == <<"a", "b", "c">>
Names == {NameOf[n] : n \in 1..Len(NameOf)}
NameIndex(nm) == CHOOSE n \in 1..Len(NameOf) : NameOf[n] = nm

VARIABLES pc, entrants, iterations, main_spots, waitlist_spots,
          stats, i, remaining, position, results, drawn, rows

vars == <<pc, entrants, iterations, main_spots, waitlist_spots,
          stats, i, remaining, position, results, drawn, rows>>

\* ---- data ---------------------------------------------------------------
\* dataclass Entrant(name, tickets); load_entrants rejects tickets < 1
Entrant == [name : Names, tickets : 1..MaxTickets]

\* names matter only through equality, so one pool stands for all its
\* renamings: the names of a pool appear in the order "a", "b", "c"
FirstOccurrenceOrder(es) ==
    \A k \in 1..Len(es) :
        NameIndex(es[k].name) <= Cardinality({es[j].name : j \in 1..(k - 1)}) + 1

\* every list load_entrants can return (names are not checked for uniqueness)
Pools == {es \in UNION {[1..n -> Entrant] : n \in 0..MaxPool} : FirstOccurrenceOrder(es)}

Min(a, b) == IF a <= b THEN a ELSE b
Max(a, b) == IF a >= b THEN a ELSE b

\* ---- run_single_lottery -------------------------------------------------
\* remaining = list(entrants): a new list of references to every entrant
list_stale(es) == remaining
list(es) == [k \in 1..Len(es) |-> k]

total_spots == main_spots + waitlist_spots

\* while position < total_spots and remaining
LoopCond_NoSpotBound == remaining # <<>>
LoopCond_NoEmptyTest == position < total_spots
LoopCond == position < total_spots /\ remaining # <<>>

\* weights = [e.tickets for e in remaining]
weights(rem) == [k \in 1..Len(rem) |-> entrants[rem[k]].tickets]

\* random.choices(remaining, weights=weights, k=1)[0]: any element of
\* positive weight can come out
choices(rem, w) == {rem[k] : k \in {j \in 1..Len(rem) : w[j] > 0}}

\* is_main = position <= main_spots
is_main_strict(pos) == pos < main_spots
is_main(pos) == pos <= main_spots

\* results[selected.tickets].append((position, is_main)) on a defaultdict(list)
AppendResult(res, tc, pos) ==
    [t \in (DOMAIN res) \cup {tc} |->
        IF t = tc
        THEN Append(IF t \in DOMAIN res THEN res[t] ELSE <<>>, <<pos, is_main(pos)>>)
        ELSE res[t]]

\* remaining = [e for e in remaining if e.name != selected.name]
RemoveNothing(rem, sel) == rem
RemoveObject(rem, sel) == SelectSeq(rem, LAMBDA e : e # sel)
RemoveSelected(rem, sel) ==
    SelectSeq(rem, LAMBDA e : entrants[e].name # entrants[sel].name)

\* ---- run_simulation -----------------------------------------------------
\* ticket_counts[e.tickets] += 1 for every entrant
ticket_counts(es) ==
    [tc \in {es[k].tickets : k \in 1..Len(es)} |->
        Cardinality({k \in 1..Len(es) : es[k].tickets = tc})]

\* stats = {tc: {"main": 0, "waitlist": 0, "total_entrants": count}}
InitStats(es) ==
    [tc \in DOMAIN ticket_counts(es) |->
        [main |-> 0, waitlist |-> 0, total_entrants |-> ticket_counts(es)[tc]]]

CountMain(sels) == Cardinality({k \in 1..Len(sels) : sels[k][2]})
CountWaitlist(sels) == Cardinality({k \in 1..Len(sels) : ~sels[k][2]})

\* for ticket_count, selections in results.items(): stats[..][..] += 1
FoldDouble(st, res) ==
    [tc \in DOMAIN st |->
        IF tc \in DOMAIN res
        THEN [st[tc] EXCEPT !.main = @ + Len(res[tc]),
                            !.waitlist = @ + Len(res[tc])]
        ELSE st[tc]]
Fold(st, res) ==
    [tc \in DOMAIN st |->
        IF tc \in DOMAIN res
        THEN [st[tc] EXCEPT !.main = @ + CountMain(res[tc]),
                            !.waitlist = @ + CountWaitlist(res[tc])]
        ELSE st[tc]]

\* ---- print_results ------------------------------------------------------
\* (count / total_chances) * 100, kept in hundredths of a percent
Pct(count, total_chances) ==
    IF count = 0 THEN 0
    ELSE IF total_chances > 0 THEN (count * 10000) \div total_chances
    ELSE 0 - ((count * 10000) \div (0 - total_chances))

Row(data) ==
    [total_entrants |-> data.total_entrants,
     main_pct |-> Pct(data.main, data.total_entrants * iterations),
     waitlist_pct |-> Pct(data.waitlist, data.total_entrants * iterations),
     either_pct |-> Pct(data.main + data.waitlist, data.total_entrants * iterations)]

\* ---- state machine ------------------------------------------------------
Init ==
    /\ pc = "main"
    /\ entrants \in Pools
    /\ iterations \in (0 - 1)..MaxIterations
    /\ main_spots \in (0 - 1)..MaxSpots
    /\ waitlist_spots \in (0 - 1)..MaxSpots
    /\ stats = <<>>
    /\ i = 0
    /\ remaining = <<>>
    /\ position = 0
    /\ results = <<>>
    /\ drawn = <<>>
    /\ rows = <<>>

\* main() calls run_simulation: the statistics are built, no parameter is tested
RunSimulation ==
    /\ pc = "main"
    /\ stats' = InitStats(entrants)
    /\ i' = 0
    /\ pc' = "loop"
    /\ UNCHANGED <<entrants, iterations, main_spots, waitlist_spots,
                   remaining, position, results, drawn, rows>>

\* for i in range(iterations): results = run_single_lottery(entrants, ...)
StartTrial ==
    /\ pc = "loop"
    /\ i < iterations
    /\ results' = <<>>
    /\ remaining' = list(entrants)
    /\ position' = 0
    /\ drawn' = <<>>
    /\ pc' = "draw"
    /\ UNCHANGED <<entrants, iterations, main_spots, waitlist_spots, stats, i, rows>>

\* one pass of the while loop of run_single_lottery
DrawStep ==
    /\ pc = "draw"
    /\ LoopCond
    /\ IF choices(remaining, weights(remaining)) = {}
       THEN /\ pc' = "IndexError"
            /\ UNCHANGED <<position, results, remaining, drawn>>
       ELSE \E selected \in choices(remaining, weights(remaining)) :
            /\ position' = position + 1
            /\ results' = AppendResult(results, entrants[selected].tickets, position + 1)
            /\ remaining' = RemoveSelected(remaining, selected)
            /\ drawn' = Append(drawn, selected)
            /\ pc' = "draw"
    /\ UNCHANGED <<entrants, iterations, main_spots, waitlist_spots, stats, i, rows>>

\* the while condition is false: return results
ReturnResults ==
    /\ pc = "draw"
    /\ ~LoopCond
    /\ pc' = "fold"
    /\ UNCHANGED <<entrants, iterations, main_spots, waitlist_spots,
                   stats, i, remaining, position, results, drawn, rows>>

\* the two nested for loops that add the trial's selections to stats
FoldTrial ==
    /\ pc = "fold"
    /\ IF (DOMAIN results) \subseteq (DOMAIN stats)
       THEN /\ stats' = Fold(stats, results)
            /\ i' = i + 1
            /\ pc' = "loop"
       ELSE /\ pc' = "KeyError"
            /\ UNCHANGED <<stats, i>>
    /\ UNCHANGED <<entrants, iterations, main_spots, waitlist_spots,
                   remaining, position, results, drawn, rows>>

\* range(iterations) is exhausted: return stats
ReturnStats ==
    /\ pc = "loop"
    /\ ~(i < iterations)
    /\ pc' = "print"
    /\ UNCHANGED <<entrants, iterations, main_spots, waitlist_spots,
                   stats, i, remaining, position, results, drawn, rows>>

\* print_results: one row per ticket count; x / 0 raises ZeroDivisionError
PrintResults ==
    /\ pc = "print"
    /\ IF \E tc \in DOMAIN stats : stats[tc].total_entrants * iterations = 0
       THEN /\ pc' = "ZeroDivisionError"
            /\ UNCHANGED rows
       ELSE /\ rows' = [tc \in DOMAIN stats |-> Row(stats[tc])]
            /\ pc' = "exit"
    /\ UNCHANGED <<entrants, iterations, main_spots, waitlist_spots,
                   stats, i, remaining, position, results, drawn>>

Next ==
    \/ RunSimulation
    \/ StartTrial
    \/ DrawStep
    \/ ReturnResults
    \/ FoldTrial
    \/ ReturnStats
    \/ PrintResults

Spec == Init /\ [][Next]_vars

\* the runs whose parameters are in the documented ranges
\* (iterations >= 1, main_spots >= 0, waitlist_spots >= 0)
ValidInit ==
    /\ Init
    /\ iterations >= 1 /\ main_spots >= 0 /\ waitlist_spots >= 0

ValidSpec == ValidInit /\ [][Next]_vars

\* the program is sequential: an enabled step is eventually taken
FairSpec == Init /\ [][Next]_vars /\ WF_vars(Next)

TypeOK ==
    /\ pc \in {"main", "loop", "draw", "fold", "print", "exit",
               "IndexError", "KeyError", "ZeroDivisionError"}
    /\ entrants \in Pools
    /\ position \in 0..(MaxPool + 1)
    /\ i \in 0..MaxIterations

\* ---- quantities the properties are stated over --------------------------
\* every (position, is_main) tuple of the mapping run_single_lottery builds
Selections == UNION {{results[tc][k] : k \in 1..Len(results[tc])} : tc \in DOMAIN results}

\* how many tuples the mapping holds, repeated ones counted
RECURSIVE SumLen(_, _)
SumLen(res, keys) ==
    IF keys = {} THEN 0
    ELSE LET tc == CHOOSE x \in keys : TRUE
         IN Len(res[tc]) + SumLen(res, keys \ {tc})

NumSelections == SumLen(results, DOMAIN results)
Positions == {s[1] : s \in Selections}
NumMain == Cardinality({s \in Selections : s[2]})
NumWaitlist == Cardinality({s \in Selections : ~s[2]})

pool_size == Len(entrants)
DistinctWeights == {entrants[k].tickets : k \in 1..Len(entrants)}
SameName(a, b) == entrants[a].name = entrants[b].name
TrialReturned == pc = "fold"
ValidParameters == iterations >= 1 /\ main_spots >= 0 /\ waitlist_spots >= 0

\* ---- C1 -----------------------------------------------------------------
\* C1: within one trial no entrant is selected twice: the entrant recorded at
\* a draw position was not selected at any earlier position of that trial,
\* whatever the pool, the spot counts and the random picks are.
C1_NoEntrantSelectedTwice ==
    /\ \A a, b \in 1..Len(drawn) : a # b => drawn[a] # drawn[b]
    /\ NumSelections = Len(drawn)

C1_Witness ==
    /\ TrialReturned
    /\ main_spots >= 0 /\ waitlist_spots >= 0
    /\ Len(drawn) >= 3

\* ---- C2 -----------------------------------------------------------------
\* C2: the positions recorded in one trial, over all weight classes, are
\* exactly 1..n without gap or repetition, and n is at most
\* min(main_spots + waitlist_spots, pool_size).
C2_PositionsContiguous ==
    pc \in {"draw", "fold"} =>
        /\ Positions = 1..NumSelections
        /\ Cardinality(Positions) = NumSelections
        /\ NumSelections <= Min(total_spots, pool_size)

\* ---- C3 -----------------------------------------------------------------
\* C3: a finished trial holds min(main_spots, pool_size) main selections and
\* min(waitlist_spots, max(0, pool_size - main_spots)) waitlist selections;
\* a selection is main exactly when its position is <= main_spots, so every
\* main position precedes every waitlist position.
C3_TrialCounts ==
    TrialReturned =>
        /\ NumMain = Min(main_spots, pool_size)
        /\ NumWaitlist = Min(waitlist_spots, Max(0, pool_size - main_spots))
        /\ \A s \in Selections : s[2] <=> (s[1] <= main_spots)
        /\ \A s, t \in Selections : (s[2] /\ ~t[2]) => s[1] < t[1]

\* ---- C4 -----------------------------------------------------------------
\* C4: when main_spots + waitlist_spots >= pool_size every entrant is selected
\* in every trial, so once run_simulation has run its `iterations` trials every
\* weight class has main + waitlist = total_entrants * iterations.
C4_EveryoneSelected ==
    (total_spots >= pool_size) =>
        /\ TrialReturned => {drawn[k] : k \in 1..Len(drawn)} = 1..pool_size
        /\ (pc = "print" /\ i = iterations) =>
              \A tc \in DOMAIN stats :
                  stats[tc].main + stats[tc].waitlist
                      = stats[tc].total_entrants * iterations

\* ---- C5 -----------------------------------------------------------------
\* C5: with iterations < 1, main_spots < 0 or waitlist_spots < 0,
\* run_simulation fails with an InvalidParameter error: run_single_lottery is
\* never called and no statistics mapping is returned.
C5_InvalidParametersRejected ==
    (~ValidParameters) =>
        /\ pc \in {"main", "InvalidParameter"}
        /\ pc \notin {"draw", "fold"}
        /\ pc \notin {"print", "exit", "ZeroDivisionError"}

\* ---- C6 -----------------------------------------------------------------
\* C6 (as stated): with a pool of exactly one entrant, every trial records
\* that entrant at position 1 with is_main = TRUE, whatever its weight.
C6_SingleEntrantAlwaysMain ==
    (pool_size = 1 /\ TrialReturned) =>
        /\ drawn = <<1>>
        /\ DOMAIN results = {entrants[1].tickets}
        /\ results[entrants[1].tickets] = << <<1, TRUE>> >>

\* C6 (amended): with a pool of exactly one entrant, main_spots >= 1 and
\* main_spots + waitlist_spots >= 1, every trial records that entrant at
\* position 1 with is_main = TRUE, whatever its weight.
C6_SingleEntrantMainWhenSpot ==
    (pool_size = 1 /\ TrialReturned /\ main_spots >= 1 /\ total_spots >= 1) =>
        /\ drawn = <<1>>
        /\ DOMAIN results = {entrants[1].tickets}
        /\ results[entrants[1].tickets] = << <<1, TRUE>> >>

C6_Witness ==
    /\ pool_size = 1 /\ TrialReturned
    /\ main_spots = 1 /\ waitlist_spots = 0
    /\ entrants[1].tickets = MaxTickets
    /\ NumMain = 1

\* ---- C7 -----------------------------------------------------------------
\* C7: the entrants list never changes, every trial starts with the whole
\* pool as its working set, and each weight class keeps the total_entrants
\* computed before the first trial.
C7_PoolUntouched ==
    /\ [][entrants' = entrants]_vars
    /\ [](pc = "draw" /\ position = 0 =>
             remaining = [k \in 1..pool_size |-> k])
    /\ [](pc # "main" =>
             /\ DOMAIN stats = DistinctWeights
             /\ \A tc \in DOMAIN stats :
                   stats[tc].total_entrants =
                       Cardinality({k \in 1..pool_size : entrants[k].tickets = tc}))

C7_Witness ==
    /\ pc = "draw" /\ position = 0 /\ i = 1
    /\ pool_size = MaxPool
    /\ \E tc \in DOMAIN stats : stats[tc].main > 0

\* ---- C8 -----------------------------------------------------------------
\* C8: every call of run_single_lottery returns; the loop never draws past
\* total_spots nor from an empty working set, it stops only when total_spots
\* entrants are drawn or nobody is left, and a pool smaller than total_spots
\* gives fewer than total_spots results and no error.
C8_DrawTerminates ==
    /\ (pc = "draw") ~> (pc = "fold")
    /\ [](pc # "IndexError")
    /\ [](pc \in {"draw", "fold"} =>
             /\ position = NumSelections
             /\ position <= Max(total_spots, 0)
             /\ position <= pool_size)
    /\ [](TrialReturned => (position >= total_spots \/ remaining = <<>>))
    /\ [](TrialReturned /\ pool_size < total_spots =>
             NumSelections < total_spots /\ remaining = <<>>)

C8_Witness ==
    /\ TrialReturned
    /\ main_spots >= 0 /\ waitlist_spots >= 0
    /\ 0 < pool_size /\ pool_size < total_spots
    /\ NumSelections = pool_size

\* ---- C9 -----------------------------------------------------------------
\* C9: a draw step takes exactly one position and leaves as working set the
\* previous one without every entrant that has the selected entrant's name;
\* entrants sharing a name are removed together, so no two entrants selected
\* in one trial share a name and nobody left has the name of a selected one.
C9_RemovalByName ==
    /\ [][(pc = "draw" /\ drawn' # drawn) =>
            LET sel == drawn'[Len(drawn')]
            IN /\ Len(drawn') = Len(drawn) + 1
               /\ position' = position + 1
               /\ \E k \in 1..Len(remaining) : remaining[k] = sel
               /\ remaining' = SelectSeq(remaining, LAMBDA e : ~SameName(e, sel))]_vars
    /\ [](\A a, b \in 1..Len(drawn) : a # b => ~SameName(drawn[a], drawn[b]))
    /\ [](pc = "draw" =>
             \A k \in 1..Len(remaining), a \in 1..Len(drawn) :
                 ~SameName(remaining[k], drawn[a]))

C9_Witness ==
    /\ TrialReturned
    /\ \E a, b \in 1..pool_size : a # b /\ SameName(a, b)
    /\ total_spots >= pool_size
    /\ remaining = <<>>
    /\ Len(drawn) = 1 /\ pool_size = MaxPool

\* ---- C10 ----------------------------------------------------------------
\* C10: after k completed trials every weight class has
\* 0 <= main + waitlist <= total_entrants * k, the counters never decrease,
\* the keys of stats are the distinct weights of the pool, a trial never
\* records a weight without a stats entry, and no printed percentage is over
\* 100.
C10_CountersBounded ==
    /\ [](pc # "main" =>
             /\ i >= 0 /\ i <= Max(iterations, 0)
             /\ DOMAIN stats = DistinctWeights
             /\ (DOMAIN results) \subseteq (DOMAIN stats)
             /\ \A tc \in DOMAIN stats :
                   /\ stats[tc].main >= 0 /\ stats[tc].waitlist >= 0
                   /\ stats[tc].main + stats[tc].waitlist
                          <= stats[tc].total_entrants * i)
    /\ [](pc # "KeyError")
    /\ [][pc # "main" =>
             \A tc \in DOMAIN stats :
                 /\ tc \in DOMAIN stats'
                 /\ stats'[tc].main >= stats[tc].main
                 /\ stats'[tc].waitlist >= stats[tc].waitlist]_vars
    /\ [](pc = "exit" =>
             \A tc \in DOMAIN rows :
                 /\ rows[tc].main_pct <= 10000
                 /\ rows[tc].waitlist_pct <= 10000
                 /\ rows[tc].either_pct <= 10000)

C10_Witness ==
    /\ pc = "exit" /\ i = MaxIterations
    /\ Cardinality(DOMAIN rows) >= 2
    /\ \E tc \in DOMAIN rows : rows[tc].either_pct = 10000
    /\ \E tc \in DOMAIN rows : rows[tc].either_pct < 10000 /\ rows[tc].main_pct > 0
====
